---- MODULE Spec2Model ----
(***************************************************************************)
(* A model of the DBD data pipeline of backend/data_processor.py: the      *)
(* DBDDataProcessor object (its feature table self.df and its importance   *)
(* vector self.feature_importance), the raw CSV table it reads, and one    *)
(* action per public method.  Every method call is atomic (the program is  *)
(* single-threaded and synchronous) and leaves its outcome in `out`.       *)
(*                                                                         *)
(* The estimator.  The forest is seeded (random_state), so on one table it *)
(* yields the same importances at every fit; which ones is not modelled,   *)
(* and `estimator` holds a choice of them, with whether the installed      *)
(* scikit-learn accepts NaN input.                                         *)
(*                                                                         *)
(* Numbers.  Cell values are non-negative integers.  NA stands for pandas' *)
(* NaN / <NA>, BAD for a cell whose text is not a number.  A mean is kept  *)
(* as the exact fraction [num, den], NaN as den = 0.                         *)
(***************************************************************************)
EXTENDS Integers, Sequences, FiniteSets, TLC

VARIABLES csv, estimator, df, feature_importance, model, processors, data_cache, out

vars == <<csv, estimator, df, feature_importance, model, processors, data_cache, out>>

-----------------------------------------------------------------------------
(* Values *)

NA == -1

BAD == -2

None == -3

\* Sorts after every value: sort_values puts NaN last (na_position='last').
NaLast == 1000000

MaxRows == 2

MaxRowsFE == 4

MaxRowsYear == 3

MaxProcessors == 3

num_cols == {"jumlah_curah_hujan", "kepadatan_penduduk", "kasus_bulanan", "bulan", "tahun"}

AllColumns == num_cols \cup {"kode_kabupaten_kota", "nama_kabupaten_kota"}

\* The columns load_and_preprocess_data indexes by name: a missing one raises KeyError.
LoadColumns == num_cols \cup {"kode_kabupaten_kota"}

candidate_features == <<"jumlah_curah_hujan", "rain_lag1", "rain_3m_mean", "kepadatan_penduduk", "rain_x_density", "bulan">>

-----------------------------------------------------------------------------
(* Sequence helpers *)

Range(s) == {s[i] : i \in 1..Len(s)}

RECURSIVE SumSet(_, _)
SumSet(f, S) == IF S = {} THEN 0 ELSE LET x == CHOOSE y \in S : TRUE IN f[x] + SumSet(f, S \ {x})

MaxOf(S) == CHOOSE x \in S : \A y \in S : y <= x

MinOf(S) == CHOOSE x \in S : \A y \in S : x <= y

-----------------------------------------------------------------------------
(* The raw table: pd.read_csv(self.csv_path) *)

MkRow(k, n, y, m, r, d, c) ==
  [kode_kabupaten_kota |-> k, nama_kabupaten_kota |-> n, tahun |-> y, bulan |-> m,
   jumlah_curah_hujan |-> r, kepadatan_penduduk |-> d, kasus_bulanan |-> c]

\* A well-formed region: its display name and its (constant) density.
NameOf(k) == k

DensityOf(k) == IF k = 1 THEN 150 ELSE 12

\* read_csv gives each row its position as index label; the label stays with
\* the row through dropna and sort_values.
RECURSIVE WithIndex(_, _)
WithIndex(rows, i) ==
  IF rows = <<>> THEN <<>>
  ELSE <<[index |-> i, kode_kabupaten_kota |-> Head(rows).kode_kabupaten_kota,
          nama_kabupaten_kota |-> Head(rows).nama_kabupaten_kota,
          tahun |-> Head(rows).tahun, bulan |-> Head(rows).bulan,
          jumlah_curah_hujan |-> Head(rows).jumlah_curah_hujan,
          kepadatan_penduduk |-> Head(rows).kepadatan_penduduk,
          kasus_bulanan |-> Head(rows).kasus_bulanan]>> \o WithIndex(Tail(rows), i + 1)

read_csv(table) == WithIndex(table.rows, 0)

-----------------------------------------------------------------------------
(* load_and_preprocess_data *)

\* pd.to_numeric(errors='coerce'): text that is no number becomes NaN.
to_numeric(v) == IF v = BAD THEN NA ELSE v

coerce_num_cols(r) ==
  [r EXCEPT !.jumlah_curah_hujan = to_numeric(@), !.kepadatan_penduduk = to_numeric(@),
            !.kasus_bulanan = to_numeric(@), !.bulan = to_numeric(@), !.tahun = to_numeric(@)]

RECURSIVE MapCoerce(_)
MapCoerce(rows) == IF rows = <<>> THEN <<>> ELSE <<coerce_num_cols(Head(rows))>> \o MapCoerce(Tail(rows))

\* Mutant: dropna() without the subset, over the numeric columns.
dropna_kasus_any(rows) ==
  SelectSeq(rows, LAMBDA r : /\ r.kasus_bulanan # NA /\ r.jumlah_curah_hujan # NA
                             /\ r.kepadatan_penduduk # NA /\ r.bulan # NA /\ r.tahun # NA)

\* df.dropna(subset=['kasus_bulanan'])
dropna_kasus(rows) == SelectSeq(rows, LAMBDA r : r.kasus_bulanan # NA)

SortKey(v) == IF v = NA THEN NaLast ELSE v

\* Mutant: month before year.
KeyLess_month_first(a, b) ==
  LET ka == <<SortKey(a.kode_kabupaten_kota), SortKey(a.bulan), SortKey(a.tahun)>>
      kb == <<SortKey(b.kode_kabupaten_kota), SortKey(b.bulan), SortKey(b.tahun)>>
  IN \/ ka[1] < kb[1]
     \/ ka[1] = kb[1] /\ ka[2] < kb[2]
     \/ ka[1] = kb[1] /\ ka[2] = kb[2] /\ ka[3] < kb[3]

\* The order of sort_values(['kode_kabupaten_kota', 'tahun', 'bulan']).
KeyLess(a, b) ==
  LET ka == <<SortKey(a.kode_kabupaten_kota), SortKey(a.tahun), SortKey(a.bulan)>>
      kb == <<SortKey(b.kode_kabupaten_kota), SortKey(b.tahun), SortKey(b.bulan)>>
  IN \/ ka[1] < kb[1]
     \/ ka[1] = kb[1] /\ ka[2] < kb[2]
     \/ ka[1] = kb[1] /\ ka[2] = kb[2] /\ ka[3] < kb[3]

\* A row goes before the first row with a greater key, so after its equals:
\* the multi-column sort is a stable lexsort.
RECURSIVE InsertSorted(_, _)
InsertSorted(r, s) ==
  IF s = <<>> THEN <<r>>
  ELSE IF KeyLess(r, Head(s)) THEN <<r>> \o s
  ELSE <<Head(s)>> \o InsertSorted(r, Tail(s))

RECURSIVE SortInto(_, _)
SortInto(rows, acc) == IF rows = <<>> THEN acc ELSE SortInto(Tail(rows), InsertSorted(Head(rows), acc))

\* Mutant: rows with the key of an earlier row are dropped (drop_duplicates on the key).
sort_values_unique(rows) ==
  SortInto(SelectSeq(rows, LAMBDA r : \A q \in Range(rows) : q.index < r.index => (KeyLess(q, r) \/ KeyLess(r, q))), <<>>)

sort_values(rows) == SortInto(rows, <<>>)

\* groupby('kode_kabupaten_kota'): the positions before i of i's group, in order.
\* A row whose key is NaN is in no group (dropna=True).
GroupBefore(rows, i) ==
  {j \in 1..(i - 1) : rows[j].kode_kabupaten_kota = rows[i].kode_kabupaten_kota}

\* Mutant: shift(1) without the groupby.
rain_lag1_ungrouped(rows, i) ==
  IF i = 1 THEN NA ELSE rows[i - 1].jumlah_curah_hujan

\* groupby(...)['jumlah_curah_hujan'].shift(1)
rain_lag1(rows, i) ==
  IF rows[i].kode_kabupaten_kota = NA \/ GroupBefore(rows, i) = {} THEN NA
  ELSE rows[MaxOf(GroupBefore(rows, i))].jumlah_curah_hujan

\* A mean as the exact fraction num/den; no value to average gives NaN (den = 0).
Mean(sum, count) == [num |-> sum, den |-> count]

NaMean == [num |-> 0, den |-> 0]

\* The last n positions of a set of positions.
RECURSIVE LastN(_, _)
LastN(S, n) == IF n = 0 \/ S = {} THEN {} ELSE {MaxOf(S)} \cup LastN(S \ {MaxOf(S)}, n - 1)

MeanOver(rows, W) ==
  LET valid == {j \in W : rows[j].jumlah_curah_hujan # NA}
  IN IF valid = {} THEN NaMean
     ELSE Mean(SumSet([j \in valid |-> rows[j].jumlah_curah_hujan], valid), Cardinality(valid))

\* Mutant: an expanding mean instead of a window of 3.
rain_3m_mean_expanding(rows, i) ==
  IF rows[i].kode_kabupaten_kota = NA THEN NaMean
  ELSE MeanOver(rows, GroupBefore(rows, i) \cup {i})

\* groupby(...).transform(lambda x: x.rolling(window=3, min_periods=1).mean()):
\* the mean of the values present among the group's last three rows up to i.
rain_3m_mean(rows, i) ==
  IF rows[i].kode_kabupaten_kota = NA THEN NaMean
  ELSE MeanOver(rows, LastN(GroupBefore(rows, i) \cup {i}, 3))

\* df['jumlah_curah_hujan'] * df['kepadatan_penduduk']
rain_x_density(r) ==
  IF r.jumlah_curah_hujan = NA \/ r.kepadatan_penduduk = NA THEN NA
  ELSE r.jumlah_curah_hujan * r.kepadatan_penduduk

FeatureRow(rows, i) ==
  [index |-> rows[i].index, kode_kabupaten_kota |-> rows[i].kode_kabupaten_kota,
   nama_kabupaten_kota |-> rows[i].nama_kabupaten_kota,
   tahun |-> rows[i].tahun, bulan |-> rows[i].bulan,
   jumlah_curah_hujan |-> rows[i].jumlah_curah_hujan,
   kepadatan_penduduk |-> rows[i].kepadatan_penduduk,
   kasus_bulanan |-> rows[i].kasus_bulanan,
   rain_lag1 |-> rain_lag1(rows, i), rain_3m_mean |-> rain_3m_mean(rows, i),
   rain_x_density |-> rain_x_density(rows[i])]

add_features(rows) == [i \in 1..Len(rows) |-> FeatureRow(rows, i)]

\* The feature table of a raw table that has every column.
engineer(table) == add_features(sort_values(dropna_kasus(MapCoerce(read_csv(table)))))

-----------------------------------------------------------------------------
(* The processor object and the outcome of a call *)

NoTable == [none |-> TRUE, rows |-> <<>>]

Table(rows) == [none |-> FALSE, rows |-> rows]

NoImportance == [none |-> TRUE, items |-> <<>>]

NoModel == [none |-> TRUE, X |-> <<>>]

\* DBDDataProcessor.__init__
NewProcessor == [df |-> NoTable, feature_importance |-> NoImportance, model |-> NoModel]

\* A call that returns: the object after it, the value, the methods entered.
Returned(self, ret, log) == [self |-> self, err |-> "none", ret |-> ret, log |-> log]

\* A call that raises: the object as the exception leaves it.
Raised(self, err, log) == [self |-> self, err |-> err, ret |-> <<>>, log |-> log]

\* Mutant: a load adds its rows to the table already stored.
load_and_preprocess_data_appending(self, table) ==
  IF ~(LoadColumns \subseteq table.columns)
  THEN Raised(self, "KeyError", <<"load_and_preprocess_data">>)
  ELSE LET rows == self.df.rows \o engineer(table)
       IN Returned([self EXCEPT !.df = Table(rows)], rows, <<"load_and_preprocess_data">>)

\* Mutant: a load that stores the table it could not build.
load_and_preprocess_data_lenient(self, table) ==
  LET rows == engineer(table)
  IN Returned([self EXCEPT !.df = Table(rows)], rows, <<"load_and_preprocess_data">>)

load_and_preprocess_data(self, table) ==
  IF ~(LoadColumns \subseteq table.columns)
  THEN Raised(self, "KeyError", <<"load_and_preprocess_data">>)
  ELSE LET rows == engineer(table)
       IN Returned([self EXCEPT !.df = Table(rows)], rows, <<"load_and_preprocess_data">>)

\* `if self.df is None: self.load_and_preprocess_data()`
ensure_loaded(self, table) ==
  IF self.df.none THEN load_and_preprocess_data(self, table) ELSE Returned(self, <<>>, <<>>)

-----------------------------------------------------------------------------
(* train_model *)

FeatureMissing(r, f) ==
  IF f = "rain_3m_mean" THEN r.rain_3m_mean.den = 0 ELSE r[f] = NA

\* X.fillna(X.median()) leaves a column NaN when it holds no value at all.
nan_after_fillna(rows) ==
  \E k \in 1..Len(candidate_features) :
    /\ \E i \in 1..Len(rows) : FeatureMissing(rows[i], candidate_features[k])
    /\ \A i \in 1..Len(rows) : FeatureMissing(rows[i], candidate_features[k])

\* A cell of X as a float: the value over 1, a mean as it is, NaN as 0/0.
feature_cell(r, f) ==
  IF f = "rain_3m_mean" THEN r.rain_3m_mean
  ELSE IF r[f] = NA THEN NaMean ELSE Mean(r[f], 1)

\* self.df[available_features]...astype(float)
feature_matrix(rows) ==
  [i \in 1..Len(rows) |->
     [k \in 1..Len(candidate_features) |-> feature_cell(rows[i], candidate_features[k])]]

FracLess(a, b) == a.num * b.den < b.num * a.den

RECURSIVE InsertFrac(_, _)
InsertFrac(x, s) ==
  IF s = <<>> THEN <<x>>
  ELSE IF FracLess(x, Head(s)) THEN <<x>> \o s
  ELSE <<Head(s)>> \o InsertFrac(x, Tail(s))

RECURSIVE SortFracs(_, _)
SortFracs(items, acc) ==
  IF items = <<>> THEN acc ELSE SortFracs(Tail(items), InsertFrac(Head(items), acc))

\* The middle of the sorted values, the mean of the two middle ones when
\* their number is even.
MiddleOf(s) ==
  IF Len(s) % 2 = 1 THEN s[(Len(s) + 1) \div 2]
  ELSE [num |-> s[Len(s) \div 2].num * s[Len(s) \div 2 + 1].den
                + s[Len(s) \div 2 + 1].num * s[Len(s) \div 2].den,
        den |-> 2 * s[Len(s) \div 2].den * s[Len(s) \div 2 + 1].den]

\* X.median(): per column, the median of the values present, NaN when none is.
median(X, k) ==
  IF \A i \in 1..Len(X) : X[i][k].den = 0 THEN NaMean
  ELSE MiddleOf(SortFracs(SelectSeq([i \in 1..Len(X) |-> X[i][k]], LAMBDA c : c.den # 0), <<>>))

\* X.fillna(X.median())
fillna_median(X) ==
  [i \in 1..Len(X) |->
     [k \in 1..Len(candidate_features) |-> IF X[i][k].den = 0 THEN median(X, k) ELSE X[i][k]]]

\* self.model = RandomForestRegressor(...), given X to fit and to score.
with_model(self, rows) ==
  [self EXCEPT !.model = [none |-> FALSE, X |-> fillna_median(feature_matrix(rows))]]

\* train_test_split(test_size=0.2): n_test = ceil(0.2 n), n_train = n - n_test.
n_test(n) == (n + 4) \div 5

n_train(n) == n - n_test(n)

\* The importances the fit returns, one weight (in percent) per candidate feature.
ImportanceChoices ==
  { <<40, 25, 15, 10, 6, 4>>, <<10, 30, 30, 5, 5, 20>> }

RECURSIVE InsertByWeight(_, _)
InsertByWeight(x, s) ==
  IF s = <<>> THEN <<x>>
  ELSE IF x.w > Head(s).w THEN <<x>> \o s
  ELSE <<Head(s)>> \o InsertByWeight(x, Tail(s))

RECURSIVE SortByWeight(_, _)
SortByWeight(items, acc) ==
  IF items = <<>> THEN acc ELSE SortByWeight(Tail(items), InsertByWeight(Head(items), acc))

\* Mutant: the importances are kept in the order of the features.
importance_series_unsorted(imp) ==
  [none |-> FALSE,
   items |-> [k \in 1..Len(candidate_features) |-> [f |-> candidate_features[k], w |-> imp[k]]]]

\* pd.Series(importances, index=available_features).sort_values(ascending=False)
importance_series(imp) ==
  [none |-> FALSE,
   items |-> SortByWeight([k \in 1..Len(candidate_features) |-> [f |-> candidate_features[k], w |-> imp[k]]], <<>>)]

Years(rows) == {rows[i].tahun : i \in 1..Len(rows)} \ {NA}

training_period(rows) ==
  IF Years(rows) = {} THEN <<NA, NA>> ELSE <<MinOf(Years(rows)), MaxOf(Years(rows))>>

model_info(rows, imp) ==
  [model_type |-> "Random Forest Regressor", features_used |-> candidate_features,
   total_data_points |-> Len(rows), training_period |-> training_period(rows),
   feature_importance |-> importance_series(imp).items]

\* train_model from the split on.  imp: what the fit yields.  nan_ok: whether
\* the installed estimator accepts missing values (it raises ValueError on NaN
\* input otherwise).
fit_and_score(self, rows, imp, nan_ok, log) ==
  IF n_train(Len(rows)) = 0 THEN Raised(self, "ValueError", log)
  ELSE IF nan_after_fillna(rows) /\ ~nan_ok
  THEN Raised(with_model(self, rows), "ValueError", log \o <<"fit">>)
  ELSE Returned([with_model(self, rows) EXCEPT !.feature_importance = importance_series(imp)],
                model_info(rows, imp), log \o <<"fit">>)

\* train_model once the table is there (l: the outcome of ensure_loaded).
train_loaded(l, imp, nan_ok) ==
  IF l.err # "none" THEN Raised(l.self, l.err, <<"train_model">> \o l.log)
  ELSE fit_and_score(l.self, l.self.df.rows, imp, nan_ok, <<"train_model">> \o l.log)

train_model(self, table, imp, nan_ok) == train_loaded(ensure_loaded(self, table), imp, nan_ok)

-----------------------------------------------------------------------------
(* Rounding and format_population_density.  A rounded value is an integer *)
(* count of thousandths; NaN rounds to NaN.                                *)

\* The integer nearest to num/den, a tie going to the even one (Python's round).
RoundHalfEven(num, den) ==
  LET q == num \div den
      r == num % den
  IN IF 2 * r < den THEN q
     ELSE IF 2 * r > den THEN q + 1
     ELSE IF q % 2 = 0 THEN q ELSE q + 1

Pow10(d) == IF d = 0 THEN 1 ELSE IF d = 1 THEN 10 ELSE IF d = 2 THEN 100 ELSE 1000

\* round(value, d) for d in 0..3, in thousandths.
round(v, d) == IF v.den = 0 THEN NA ELSE RoundHalfEven(v.num * Pow10(d), v.den) * Pow10(3 - d)

\* Mutant: from 10 to 100 the value is reported in tens.
format_population_density_tens(value) ==
  IF value.den = 0 THEN round(value, 3)
  ELSE IF value.num >= 100 * value.den THEN round(value, 0)
  ELSE IF value.num >= 10 * value.den THEN round([num |-> value.num, den |-> 10 * value.den], 2)
  ELSE IF value.num >= value.den THEN round(value, 2)
  ELSE round(value, 3)

\* Mutant: one decimal is kept from 10 upwards, also above 100.
format_population_density_one_decimal(value) ==
  IF value.den = 0 THEN round(value, 3)
  ELSE IF value.num >= 10 * value.den THEN round(value, 1)
  ELSE IF value.num >= value.den THEN round(value, 2)
  ELSE round(value, 3)

format_population_density(value) ==
  IF value.den = 0 THEN round(value, 3)
  ELSE IF value.num >= 100 * value.den THEN round(value, 0)
  ELSE IF value.num >= 10 * value.den THEN round(value, 1)
  ELSE IF value.num >= value.den THEN round(value, 2)
  ELSE round(value, 3)

\* Series.mean(): the mean of the values present, NaN when there is none.
column_mean(rows, S, col) ==
  LET valid == {i \in S : rows[i][col] # NA}
  IN IF valid = {} THEN NaMean
     ELSE Mean(SumSet([i \in valid |-> rows[i][col]], valid), Cardinality(valid))

\* Mutant: the first value of the column instead of its sum.
column_sum_first(rows, S, col) == IF S = {} THEN 0 ELSE rows[MinOf(S)][col]

column_sum(rows, S, col) == SumSet([i \in S |-> rows[i][col]], S)

-----------------------------------------------------------------------------
(* get_monthly_aggregated_data *)

FACTOR_NAMES ==
  [jumlah_curah_hujan |-> "Curah Hujan", rain_lag1 |-> "Curah Hujan (Bulan Lalu)",
   rain_3m_mean |-> "Rata-rata Curah Hujan 3 Bulan", kepadatan_penduduk |-> "Kepadatan Penduduk",
   rain_x_density |-> "Interaksi Hujan & Kepadatan", bulan |-> "Musim (Bulan)"]

\* FACTOR_NAMES.get(f, f)
factor_name(f) == IF f \in DOMAIN FACTOR_NAMES THEN FACTOR_NAMES[f] ELSE f

month_names ==
  <<"Januari", "Februari", "Maret", "April", "Mei", "Juni",
    "Juli", "Agustus", "September", "Oktober", "November", "Desember">>

\* `if year:` holds for a year that is neither None nor 0.
Truthy(year) == year # None /\ year # 0

\* Mutant: a row without a year passes every year's filter.
year_filter_keep_missing(rows, year) ==
  IF Truthy(year) THEN SelectSeq(rows, LAMBDA r : r.tahun = year \/ r.tahun = NA) ELSE rows

\* Mutant: the year is ignored.
year_filter_off(rows, year) == rows

\* df[df['tahun'] == year], when a year is given.
year_filter(rows, year) ==
  IF Truthy(year) THEN SelectSeq(rows, LAMBDA r : r.tahun = year) ELSE rows

MonthRows(rows, month) == {i \in 1..Len(rows) : rows[i].bulan = month}

\* month_df['tahun'].mode(): the most frequent years present, ascending.
year_modes_present(rows, S) == {rows[i].tahun : i \in S} \ {NA}

year_modes(rows, S) ==
  LET count(y) == Cardinality({i \in S : rows[i].tahun = y})
      present == {rows[i].tahun : i \in S} \ {NA}
  IN {y \in present : \A z \in present : count(z) <= count(y)}

\* The baseline 0.80 of prediction_accuracy, in thousandths.
AccuracyBaseline == 800

\* np.random.uniform(-0.03, 0.03), in thousandths: a value of [-30, 30).
NoiseChoices == {-30, 29}

\* Mutant: the draw also moves the month's total.
monthly_entry_leaky(fi, rows, year, month, noise) ==
  LET S == MonthRows(rows, month)
      factors == SubSeq(fi.items, 1, IF Len(fi.items) < 3 THEN Len(fi.items) ELSE 3)
  IN [month |-> month_names[month],
      year |-> IF Truthy(year) THEN year ELSE MinOf(year_modes(rows, S)),
      total_cases |-> column_sum(rows, S, "kasus_bulanan")
                      + (IF month \in DOMAIN noise THEN noise[month] ELSE 0),
      most_influential_factor |-> factor_name(factors[1].f),
      factor_importance |-> factors[1].w,
      secondary_factor |-> IF Len(factors) > 1 THEN factor_name(factors[2].f) ELSE "N/A",
      secondary_importance |-> IF Len(factors) > 1 THEN factors[2].w ELSE 0,
      tertiary_factor |-> IF Len(factors) > 2 THEN factor_name(factors[3].f) ELSE "N/A",
      tertiary_importance |-> IF Len(factors) > 2 THEN factors[3].w ELSE 0,
      rainfall_mm |-> round(column_mean(rows, S, "jumlah_curah_hujan"), 2),
      population_density |-> format_population_density(column_mean(rows, S, "kepadatan_penduduk")),
      prediction_accuracy |-> AccuracyBaseline + (IF month \in DOMAIN noise THEN noise[month] ELSE 0)]

monthly_entry(fi, rows, year, month, noise) ==
  LET S == MonthRows(rows, month)
      factors == SubSeq(fi.items, 1, IF Len(fi.items) < 3 THEN Len(fi.items) ELSE 3)
  IN [month |-> month_names[month],
      year |-> IF Truthy(year) THEN year ELSE MinOf(year_modes(rows, S)),
      total_cases |-> column_sum(rows, S, "kasus_bulanan"),
      most_influential_factor |-> factor_name(factors[1].f),
      factor_importance |-> factors[1].w,
      secondary_factor |-> IF Len(factors) > 1 THEN factor_name(factors[2].f) ELSE "N/A",
      secondary_importance |-> IF Len(factors) > 1 THEN factors[2].w ELSE 0,
      tertiary_factor |-> IF Len(factors) > 2 THEN factor_name(factors[3].f) ELSE "N/A",
      tertiary_importance |-> IF Len(factors) > 2 THEN factors[3].w ELSE 0,
      rainfall_mm |-> round(column_mean(rows, S, "jumlah_curah_hujan"), 2),
      population_density |-> format_population_density(column_mean(rows, S, "kepadatan_penduduk")),
      prediction_accuracy |-> AccuracyBaseline + (IF month \in DOMAIN noise THEN noise[month] ELSE 0)]

\* The month's entry cannot be built: top_factors[0] of an empty vector, or
\* mode()[0] when no row of the month has a year (a KeyError or an IndexError
\* by pandas version, a LookupError either way).
monthly_entry_fails(fi, rows, year, month) ==
  \/ Len(fi.items) = 0
  \/ ~Truthy(year) /\ year_modes(rows, MonthRows(rows, month)) = {}

\* `for month in range(1, 13)`, from `month` on: a month without rows is
\* skipped, and so is every month while there is no importance vector.
RECURSIVE monthly_loop(_, _, _, _, _)
monthly_loop(fi, rows, year, month, noise) ==
  IF month > 12 THEN <<>>
  ELSE IF MonthRows(rows, month) = {} \/ fi.none THEN monthly_loop(fi, rows, year, month + 1, noise)
  ELSE <<monthly_entry(fi, rows, year, month, noise)>> \o monthly_loop(fi, rows, year, month + 1, noise)

monthly_data(fi, rows, year, noise) == monthly_loop(fi, rows, year, 1, noise)

\* The loop over the rows left by the year filter.
monthly_of_rows(self, rows, year, noise, log) ==
  IF ~self.feature_importance.none
     /\ \E m \in 1..12 : MonthRows(rows, m) # {} /\ monthly_entry_fails(self.feature_importance, rows, year, m)
  THEN Raised(self, "LookupError", log)
  ELSE Returned(self, monthly_data(self.feature_importance, rows, year, noise), log)

\* Mutant: the year's rows replace the stored table.
monthly_loaded_inplace(l, year, noise) ==
  IF l.err # "none" THEN Raised(l.self, l.err, <<"get_monthly_aggregated_data">> \o l.log)
  ELSE monthly_of_rows([l.self EXCEPT !.df = Table(year_filter(l.self.df.rows, year))],
                       year_filter(l.self.df.rows, year), year, noise,
                       <<"get_monthly_aggregated_data">> \o l.log)

\* get_monthly_aggregated_data once the table is there.
monthly_loaded(l, year, noise) ==
  IF l.err # "none" THEN Raised(l.self, l.err, <<"get_monthly_aggregated_data">> \o l.log)
  ELSE monthly_of_rows(l.self, year_filter(l.self.df.rows, year), year, noise,
                       <<"get_monthly_aggregated_data">> \o l.log)

get_monthly_aggregated_data(self, table, year, noise) ==
  monthly_loaded(ensure_loaded(self, table), year, noise)

-----------------------------------------------------------------------------
(* get_regional_data *)

GroupKey(r) == <<r.kode_kabupaten_kota, r.nama_kabupaten_kota>>

PairLess(a, b) == a[1] < b[1] \/ (a[1] = b[1] /\ a[2] < b[2])

RECURSIVE SortedPairs(_)
SortedPairs(S) ==
  IF S = {} THEN <<>>
  ELSE LET m == CHOOSE a \in S : \A b \in S : a = b \/ PairLess(a, b)
       IN <<m>> \o SortedPairs(S \ {m})

\* Mutant: groupby(..., dropna=False), a row that lacks a key is in a group too.
regional_groups_keep_na(rows) ==
  LET keys == SortedPairs({GroupKey(rows[i]) : i \in 1..Len(rows)})
  IN [g \in 1..Len(keys) |->
       [key |-> keys[g], members |-> {i \in 1..Len(rows) : GroupKey(rows[i]) = keys[g]}]]

\* groupby(['kode_kabupaten_kota', 'nama_kabupaten_kota']): one group per pair
\* of code and name, the pairs ascending; a row that lacks either is in no group.
regional_groups(rows) ==
  LET keys == SortedPairs({GroupKey(rows[i]) : i \in {j \in 1..Len(rows) :
                  rows[j].kode_kabupaten_kota # NA /\ rows[j].nama_kabupaten_kota # NA}})
  IN [g \in 1..Len(keys) |->
       [key |-> keys[g], members |-> {i \in 1..Len(rows) : GroupKey(rows[i]) = keys[g]}]]

\* agg 'first': the first value present in the group.
first_value(rows, S, col) ==
  LET valid == {i \in S : rows[i][col] # NA}
  IN IF valid = {} THEN NaMean ELSE Mean(rows[MinOf(valid)][col], 1)

\* Mutant: idxmin, the first entry of least weight.
idxmin(items) ==
  MinOf({k \in 1..Len(items) : \A j \in 1..Len(items) : items[k].w <= items[j].w})

\* feature_importance.idxmax(): the first entry of greatest weight.
idxmax(items) ==
  MinOf({k \in 1..Len(items) : \A j \in 1..Len(items) : items[j].w <= items[k].w})

\* The fallback importance 0.60, in percent.
FallbackImportance == 60

regional_entry(fi, rows, group) ==
  [province |-> group.key[2],
   total_cases_2023 |-> column_sum(rows, group.members, "kasus_bulanan"),
   dominant_factor |-> IF fi.none THEN "Kepadatan Penduduk" ELSE factor_name(fi.items[idxmax(fi.items)].f),
   factor_importance |-> IF fi.none THEN FallbackImportance ELSE fi.items[idxmax(fi.items)].w,
   population_density |-> format_population_density(first_value(rows, group.members, "kepadatan_penduduk")),
   avg_rainfall |-> round(column_mean(rows, group.members, "jumlah_curah_hujan"), 2)]

regional_of_groups(self, rows, groups, log) ==
  IF ~self.feature_importance.none /\ Len(self.feature_importance.items) = 0 /\ Len(groups) > 0
  THEN Raised(self, "ValueError", log)
  ELSE Returned(self, [g \in 1..Len(groups) |-> regional_entry(self.feature_importance, rows, groups[g])], log)

regional_of_rows(self, rows, log) == regional_of_groups(self, rows, regional_groups(rows), log)

\* get_regional_data once the table is there.
regional_loaded(l, table, year) ==
  IF l.err # "none" THEN Raised(l.self, l.err, <<"get_regional_data">> \o l.log)
  ELSE IF "nama_kabupaten_kota" \notin table.columns
  THEN Raised(l.self, "KeyError", <<"get_regional_data">> \o l.log)
  ELSE regional_of_rows(l.self, year_filter(l.self.df.rows, year), <<"get_regional_data">> \o l.log)

\* Mutant: the regional aggregator fits a model when there is no vector.
get_regional_data_training(self, table, year) ==
  IF self.feature_importance.none /\ train_model(self, table, <<40, 25, 15, 10, 6, 4>>, TRUE).err = "none"
  THEN regional_loaded(train_model(self, table, <<40, 25, 15, 10, 6, 4>>, TRUE), table, year)
  ELSE regional_loaded(ensure_loaded(self, table), table, year)

get_regional_data(self, table, year) == regional_loaded(ensure_loaded(self, table), table, year)

-----------------------------------------------------------------------------
(* get_factor_summary and generate_api_data *)

factor_descriptions ==
  [jumlah_curah_hujan |-> "Jumlah curah hujan bulanan yang mempengaruhi perkembangbiakan nyamuk",
   rain_lag1 |-> "Curah hujan bulan sebelumnya (efek tertunda)",
   rain_3m_mean |-> "Rata-rata curah hujan dalam 3 bulan terakhir",
   kepadatan_penduduk |-> "Jumlah penduduk per km2 yang mempengaruhi penyebaran",
   rain_x_density |-> "Interaksi antara curah hujan dan kepadatan penduduk",
   bulan |-> "Pengaruh musim berdasarkan bulan dalam setahun"]

\* Mutant: every descriptor is named by its raw identifier.
factor_record_raw(item) ==
  [name |-> item.f, avg_importance |-> item.w,
   description |-> IF item.f \in DOMAIN factor_descriptions THEN factor_descriptions[item.f]
                   ELSE "Deskripsi tidak tersedia"]

factor_record(item) ==
  [name |-> factor_name(item.f), avg_importance |-> item.w,
   description |-> IF item.f \in DOMAIN factor_descriptions THEN factor_descriptions[item.f]
                   ELSE "Deskripsi tidak tersedia"]

factors_of(items) == [factors |-> [k \in 1..Len(items) |-> factor_record(items[k])]]

\* get_factor_summary once the importance vector is there (t: the outcome of
\* the fit, if one was needed).
factor_summary_trained(t) ==
  IF t.err # "none" THEN Raised(t.self, t.err, <<"get_factor_summary">> \o t.log)
  ELSE Returned(t.self, factors_of(t.self.feature_importance.items), <<"get_factor_summary">> \o t.log)

\* Mutant: the summary never fits a model, with or without a vector.
get_factor_summary_untrained(self, table, imp, nan_ok) ==
  factor_summary_trained(Returned(self, <<>>, <<>>))

\* Mutant: the summary fits a model of its own on every call.
get_factor_summary_refit(self, table, imp, nan_ok) ==
  factor_summary_trained(train_model(self, table, imp, nan_ok))

\* `if self.feature_importance is None: self.train_model()`
get_factor_summary(self, table, imp, nan_ok) ==
  factor_summary_trained(IF self.feature_importance.none THEN train_model(self, table, imp, nan_ok)
                         ELSE Returned(self, <<>>, <<>>))

bundle(t, m, r, f) ==
  [dbd_ml_results |-> m.ret,
   model_info |-> [model_type |-> t.ret.model_type, features_used |-> t.ret.features_used,
                   total_data_points |-> t.ret.total_data_points,
                   training_period |-> t.ret.training_period],
   regional_data |-> r.ret, factor_summary |-> f.ret]

\* generate_api_data, statement by statement: an exception ends the call.
api_after_factor(t, m, r, f) ==
  IF f.err # "none" THEN Raised(f.self, f.err, <<"generate_api_data">> \o t.log \o m.log \o r.log \o f.log)
  ELSE Returned(f.self, bundle(t, m, r, f), <<"generate_api_data">> \o t.log \o m.log \o r.log \o f.log)

api_after_regional(t, m, r, table, imp, nan_ok) ==
  IF r.err # "none" THEN Raised(r.self, r.err, <<"generate_api_data">> \o t.log \o m.log \o r.log)
  ELSE api_after_factor(t, m, r, get_factor_summary(r.self, table, imp, nan_ok))

api_after_monthly(t, m, table, year, imp, nan_ok) ==
  IF m.err # "none" THEN Raised(m.self, m.err, <<"generate_api_data">> \o t.log \o m.log)
  ELSE api_after_regional(t, m, get_regional_data(m.self, table, year), table, imp, nan_ok)

\* Mutant: the aggregators run whatever became of the fit.
api_after_train_lenient(t, table, year, imp, nan_ok, noise) ==
  api_after_monthly(t, get_monthly_aggregated_data(t.self, table, year, noise), table, year, imp, nan_ok)

api_after_train(t, table, year, imp, nan_ok, noise) ==
  IF t.err # "none" THEN Raised(t.self, t.err, <<"generate_api_data">> \o t.log)
  ELSE api_after_monthly(t, get_monthly_aggregated_data(t.self, table, year, noise), table, year, imp, nan_ok)

generate_api_data(self, table, year, imp, nan_ok, noise) ==
  api_after_train(train_model(self, table, imp, nan_ok), table, year, imp, nan_ok, noise)

-----------------------------------------------------------------------------
(* The raw tables the model is run on *)

\* A well-formed observation of region k at (y, m): rainfall by month, cases by region.
Observation(k, y, m) == MkRow(k, NameOf(k), y, m, 10 * m, DensityOf(k), IF k = 1 THEN 10 ELSE 30)

\* Two time points whose order by (year, month) differs from their order by month.
TimePoints == {<<2023, 2>>, <<2024, 1>>}

NormalRows == {Observation(k, t[1], t[2]) : k \in {1, 2}, t \in TimePoints}

\* One cell of a well-formed row spoilt.
SpoiltRows ==
  LET b == Observation(1, 2024, 1)
  IN { [b EXCEPT !.nama_kabupaten_kota = 2], [b EXCEPT !.nama_kabupaten_kota = NA],
       [b EXCEPT !.kode_kabupaten_kota = NA], [b EXCEPT !.tahun = NA],
       [b EXCEPT !.bulan = NA], [b EXCEPT !.bulan = 13],
       [b EXCEPT !.jumlah_curah_hujan = NA],
       [b EXCEPT !.kasus_bulanan = BAD] }

SeqsUpTo(S, n) == UNION {[1..k -> S] : k \in 0..n}

\* A table that lacks column c: its cells are not there to be read.
WithoutColumn(rows, c) ==
  [columns |-> AllColumns \ {c}, rows |-> [i \in 1..Len(rows) |-> [rows[i] EXCEPT ![c] = NA]]]

RawTables ==
  {[columns |-> AllColumns, rows |-> t] : t \in SeqsUpTo(NormalRows \cup SpoiltRows, MaxRows)}
  \cup {WithoutColumn(t, c) : t \in SeqsUpTo({Observation(1, 2024, 1)}, MaxRows), c \in AllColumns}

\* Rows for the feature engineering: two regions, two time points, two
\* rainfalls, and rows that lack a rainfall, a region, a case count or a month.
RainRows ==
  {[Observation(k, t[1], t[2]) EXCEPT !.jumlah_curah_hujan = r] : k \in {1, 2}, t \in TimePoints, r \in {10, 20}}
  \cup { [Observation(1, 2024, 1) EXCEPT !.jumlah_curah_hujan = NA],
         [Observation(1, 2024, 1) EXCEPT !.kode_kabupaten_kota = NA],
         [Observation(1, 2023, 2) EXCEPT !.kasus_bulanan = NA],
         [Observation(1, 2023, 2) EXCEPT !.kasus_bulanan = BAD],
         [Observation(1, 2023, 2) EXCEPT !.bulan = NA] }

RawTablesFE == {[columns |-> AllColumns, rows |-> t] : t \in SeqsUpTo(RainRows, MaxRowsFE)}

\* Rows for the year label: one month recorded under two years by two
\* regions, a row of that month without a year, and a row of another month.
YearRows ==
  { Observation(1, 2023, 1), Observation(2, 2024, 1),
    [Observation(1, 2023, 1) EXCEPT !.tahun = NA], Observation(1, 2024, 2) }

RawTablesYear == {[columns |-> AllColumns, rows |-> t] : t \in SeqsUpTo(YearRows, MaxRowsYear)}

-----------------------------------------------------------------------------
(* State machine *)

\* _data_cache = {}
NoCache == [k \in {} |-> 0]

\* f"processor_{year}": one key for each year.
cache_key(year) == <<"processor", year>>

\* The methods of a log that are m.
Entered(log, m) == Len(SelectSeq(log, LAMBDA x : x = m))

\* An object on the heap: the processor, and how often it was loaded and trained.
Instance(r) ==
  [self |-> r.self,
   loads |-> Entered(r.log, "load_and_preprocess_data"),
   trains |-> Entered(r.log, "train_model")]

\* processor.train_model() after the load (l: the outcome of the load).
load_then_train(l, table, imp, nan_ok) ==
  IF l.err # "none" THEN l
  ELSE [train_model(l.self, table, imp, nan_ok) EXCEPT
          !.log = l.log \o train_model(l.self, table, imp, nan_ok).log]

\* DBDDataProcessor(CSV_FILE); load_and_preprocess_data(); train_model()
create_processor(table, imp, nan_ok) ==
  load_then_train(load_and_preprocess_data(NewProcessor, table), table, imp, nan_ok)

\* The cache and the heap after a miss (r: the outcome of the creation), and
\* what the call returns: a reference to the new instance, or the exception.
cache_miss(cache, heap, key, r) ==
  [data_cache |-> IF r.err = "none" THEN cache @@ (key :> Len(heap) + 1) ELSE cache,
   processors |-> Append(heap, Instance(r)),
   err |-> r.err,
   ret |-> IF r.err = "none" THEN <<Len(heap) + 1>> ELSE <<>>,
   log |-> r.log]

\* Mutant: a processor is created on every call, cached or not.
get_or_create_processor_fresh(cache, heap, year, table, imp, nan_ok) ==
  cache_miss([k \in DOMAIN cache \ {cache_key(year)} |-> cache[k]], heap, cache_key(year),
             create_processor(table, imp, nan_ok))

get_or_create_processor(cache, heap, year, table, imp, nan_ok) ==
  IF cache_key(year) \in DOMAIN cache
  THEN [data_cache |-> cache, processors |-> heap, err |-> "none",
        ret |-> <<cache[cache_key(year)]>>, log |-> <<>>]
  ELSE cache_miss(cache, heap, cache_key(year), create_processor(table, imp, nan_ok))

NoCall == [op |-> "none", year |-> None, err |-> "none", ret |-> <<>>, log |-> <<>>]

self == [df |-> df, feature_importance |-> feature_importance, model |-> model]

\* The call's effect on the object, and its outcome.
Call(op, year, r) ==
  /\ df' = r.self.df
  /\ feature_importance' = r.self.feature_importance
  /\ model' = r.self.model
  /\ out' = [op |-> op, year |-> year, err |-> r.err, ret |-> r.ret, log |-> r.log]
  /\ UNCHANGED <<csv, estimator, processors, data_cache>>

\* The estimator's treatment of NaN input matters only when some is left.
Estimators(table) ==
  [importances : ImportanceChoices,
   accepts_nan : IF LoadColumns \subseteq table.columns /\ nan_after_fillna(engineer(table))
                 THEN BOOLEAN ELSE {TRUE}]

Init ==
  /\ csv \in RawTables
  /\ estimator \in Estimators(csv)
  /\ df = NoTable
  /\ feature_importance = NoImportance
  /\ model = NoModel
  /\ processors = <<>>
  /\ data_cache = NoCache
  /\ out = NoCall

InitFE ==
  /\ csv \in RawTablesFE
  /\ estimator = [importances |-> <<40, 25, 15, 10, 6, 4>>, accepts_nan |-> TRUE]
  /\ df = NoTable
  /\ feature_importance = NoImportance
  /\ model = NoModel
  /\ processors = <<>>
  /\ data_cache = NoCache
  /\ out = NoCall

InitYear ==
  /\ csv \in RawTablesYear
  /\ estimator = [importances |-> <<40, 25, 15, 10, 6, 4>>, accepts_nan |-> TRUE]
  /\ df = NoTable
  /\ feature_importance = NoImportance
  /\ model = NoModel
  /\ processors = <<>>
  /\ data_cache = NoCache
  /\ out = NoCall

LoadAndPreprocessData == Call("load_and_preprocess_data", None, load_and_preprocess_data(self, csv))

TrainModel ==
  Call("train_model", None, train_model(self, csv, estimator.importances, estimator.accepts_nan))

\* The year a caller passes: none, 0, or a year that some rows have and others do not.
YearArgs == {None, 0, 2024}

\* One draw of the random generator for each month that can get an entry.
NoiseArgs == [{m \in 1..12 : \E i \in 1..Len(csv.rows) : csv.rows[i].bulan = m} -> NoiseChoices]

GetMonthlyAggregatedData ==
  \E year \in YearArgs, noise \in NoiseArgs :
    Call("get_monthly_aggregated_data", year, get_monthly_aggregated_data(self, csv, year, noise))

GetRegionalData ==
  \E year \in YearArgs : Call("get_regional_data", year, get_regional_data(self, csv, year))

GetFactorSummary ==
  Call("get_factor_summary", None,
       get_factor_summary(self, csv, estimator.importances, estimator.accepts_nan))

GenerateApiData ==
  \E year \in YearArgs, noise \in NoiseArgs :
    Call("generate_api_data", year,
         generate_api_data(self, csv, year, estimator.importances, estimator.accepts_nan, noise))

\* The methods of a processor, called in any order.
Next ==
  \/ LoadAndPreprocessData
  \/ TrainModel
  \/ GetMonthlyAggregatedData
  \/ GetRegionalData
  \/ GetFactorSummary

\* Report builds, the first on a new processor, the others on a used one.
NextReport == GenerateApiData

NextFE == LoadAndPreprocessData

Spec == Init /\ [][Next]_vars

SpecFE == InitFE /\ [][NextFE]_vars

SpecReport == Init /\ [][NextReport]_vars

\* Monthly summaries of a processor, before and after training.
\* The years the endpoints ask a processor for.
CacheYears == {2023, 2024}

GetOrCreateProcessor ==
  \E year \in CacheYears :
    LET r == get_or_create_processor(data_cache, processors, year, csv,
                                     estimator.importances, estimator.accepts_nan)
    IN /\ Len(r.processors) <= MaxProcessors
       /\ data_cache' = r.data_cache
       /\ processors' = r.processors
       /\ out' = [op |-> "get_or_create_processor", year |-> year, err |-> r.err,
                  ret |-> r.ret, log |-> r.log]
       /\ UNCHANGED <<csv, estimator, df, feature_importance, model>>

NextCache == GetOrCreateProcessor

SpecCache == Init /\ [][NextCache]_vars

NextYear ==
  \/ TrainModel
  \/ GetMonthlyAggregatedData

SpecYear == InitYear /\ [][NextYear]_vars

\* The formatter on its own.  The magnitudes are sixteenths, which a float
\* holds exactly: below 3, and around 10, 100 and 102, with the halves that
\* lie midway between two results.
FormatInputs ==
  {[num |-> n, den |-> 16] : n \in (0..48) \cup (152..168) \cup (1592..1608) \cup (1616..1640)}
  \cup {[num |-> n, den |-> 4096] : n \in {4095, 4097, 40959, 40961, 409599, 409601}}

InitFormat ==
  /\ csv = [columns |-> AllColumns, rows |-> <<>>]
  /\ estimator = [importances |-> <<40, 25, 15, 10, 6, 4>>, accepts_nan |-> TRUE]
  /\ df = NoTable
  /\ feature_importance = NoImportance
  /\ model = NoModel
  /\ processors = <<>>
  /\ data_cache = NoCache
  /\ out = NoCall

FormatPopulationDensity ==
  \E value \in FormatInputs :
    /\ out' = [op |-> "format_population_density", year |-> None, err |-> "none",
               ret |-> [value |-> value, result |-> format_population_density(value)], log |-> <<>>]
    /\ UNCHANGED <<csv, estimator, df, feature_importance, model, processors, data_cache>>

\* The formatter applied to the value it has just returned.
FormatFormatted ==
  /\ out.op = "format_population_density"
  /\ out' = [out EXCEPT !.ret = [value |-> Mean(out.ret.result, 1000),
                                 result |-> format_population_density(Mean(out.ret.result, 1000))]]
  /\ UNCHANGED <<csv, estimator, df, feature_importance, model, processors, data_cache>>

NextFormat ==
  \/ FormatPopulationDensity
  \/ FormatFormatted

SpecFormat == InitFormat /\ [][NextFormat]_vars

-----------------------------------------------------------------------------
(* Feature engineering: what the loaded table is, stated on the raw table *)

Loaded == out.op = "load_and_preprocess_data" /\ out.err = "none" /\ ~df.none

FeatureRows == Range(df.rows)

\* q comes before r in (year, month) ascending order, a missing value last,
\* rows alike in both in their order in the file.
Earlier(q, r) ==
  LET yq == IF q.tahun = NA THEN NaLast ELSE q.tahun
      yr == IF r.tahun = NA THEN NaLast ELSE r.tahun
      mq == IF q.bulan = NA THEN NaLast ELSE q.bulan
      mr == IF r.bulan = NA THEN NaLast ELSE r.bulan
  IN \/ yq < yr
     \/ yq = yr /\ mq < mr
     \/ yq = yr /\ mq = mr /\ q.index < r.index

\* The rows of r's region before r.
Preceding(r) == {q \in FeatureRows : q.kode_kabupaten_kota = r.kode_kabupaten_kota /\ Earlier(q, r)}

\* The row of r's region immediately before r.
Predecessor(r) == CHOOSE q \in Preceding(r) : \A p \in Preceding(r) : p = q \/ Earlier(p, q)

\* r and the (at most) two rows of its region immediately before it.
Window(r) == {r} \cup {q \in Preceding(r) : Cardinality({p \in Preceding(r) : Earlier(q, p)}) < 2}

RainSum(S) == SumSet([q \in S |-> q.jumlah_curah_hujan], S)

\* C5 as stated (read for the rows that have a region identifier): lag1 is the
\* rainfall of the row of the same region immediately before, and it is missing
\* exactly for the first row of each region.
C5_LagMissingOnlyForFirstRow ==
  Loaded =>
    \A r \in FeatureRows :
      r.kode_kabupaten_kota # NA =>
        /\ (r.rain_lag1 = NA) <=> (Preceding(r) = {})
        /\ Preceding(r) # {} => r.rain_lag1 = Predecessor(r).jumlah_curah_hujan

\* C5 (amended): for a row with a region identifier, lag1 is the rainfall,
\* missing or not, of the row of the same region immediately before it in
\* (region, year, month) order, and missing for the region's first row; a row
\* without region identifier has a missing lag1.  No row takes its lag1 from
\* another region.
C5_LagIsPredecessorRainfall ==
  Loaded =>
    \A r \in FeatureRows :
      IF r.kode_kabupaten_kota = NA \/ Preceding(r) = {}
      THEN r.rain_lag1 = NA
      ELSE r.rain_lag1 = Predecessor(r).jumlah_curah_hujan

\* A region's second row takes the first row's rainfall although a row of the
\* other region lies between them in the file, and a row is missing its lag1
\* because its predecessor has no rainfall.
C5_Witness ==
  /\ Loaded
  /\ \E r \in FeatureRows : \E q \in FeatureRows :
       /\ r.kode_kabupaten_kota = 1 /\ r.rain_lag1 = 20 /\ r.jumlah_curah_hujan = 10
       /\ q.kode_kabupaten_kota = 2 /\ q.jumlah_curah_hujan = 10 /\ q.index < r.index
       /\ \E p \in Preceding(r) : p.index < q.index
  /\ \E r \in FeatureRows : r.kode_kabupaten_kota # NA /\ Preceding(r) # {} /\ r.rain_lag1 = NA

\* C6 as stated: for every row, rolling3_mean is the mean of the rainfall of
\* the row and of at most the two rows of its region immediately before it
\* (checked where all of them have a rainfall).
C6_RollingMeanForEveryRow ==
  Loaded =>
    \A r \in FeatureRows :
      (\A q \in Window(r) : q.jumlah_curah_hujan # NA) =>
        /\ r.rain_3m_mean.den = Cardinality(Window(r))
        /\ r.rain_3m_mean.num = RainSum(Window(r))

\* C6 (amended): for a row with a region identifier, rolling3_mean is the mean
\* of the rainfall values present among the row and the at most two rows of its
\* region immediately before it (missing when none is present); a row without
\* region identifier has a missing rolling3_mean.  No later row and no row of
\* another region is used.
C6_RollingMeanOfWindow ==
  Loaded =>
    \A r \in FeatureRows :
      LET present == {q \in Window(r) : q.jumlah_curah_hujan # NA}
      IN IF r.kode_kabupaten_kota = NA \/ present = {}
         THEN r.rain_3m_mean = NaMean
         ELSE r.rain_3m_mean = Mean(RainSum(present), Cardinality(present))

\* A region's fourth row, whose window leaves out the first row's different
\* rainfall, with a row of the other region in the table.
C6_Witness ==
  /\ Loaded
  /\ \E r \in FeatureRows :
       /\ Cardinality(Preceding(r)) = 3
       /\ \E q \in Preceding(r) \ Window(r) : q.jumlah_curah_hujan = 20
       /\ r.rain_3m_mean = Mean(30, 3)

\* The raw rows, with their index, as to_numeric reads them.
RawRows == Range(MapCoerce(read_csv(csv)))

RawCells(r) ==
  [index |-> r.index, kode_kabupaten_kota |-> r.kode_kabupaten_kota,
   nama_kabupaten_kota |-> r.nama_kabupaten_kota, tahun |-> r.tahun, bulan |-> r.bulan,
   jumlah_curah_hujan |-> r.jumlah_curah_hujan, kepadatan_penduduk |-> r.kepadatan_penduduk,
   kasus_bulanan |-> r.kasus_bulanan]

\* C7: the feature table holds exactly the raw rows whose case count is a
\* number, each once and with its cells; a row without rainfall, density,
\* month or year stays.
C7_KeepsRowsWithCaseCount ==
  Loaded =>
    /\ {RawCells(r) : r \in FeatureRows} = {q \in RawRows : q.kasus_bulanan # NA}
    /\ Len(df.rows) = Cardinality({q \in RawRows : q.kasus_bulanan # NA})

\* A table with a row whose case count is text and one whose case count is
\* missing, which go, and a row without month and one without rainfall, which stay.
C7_Witness ==
  /\ Loaded
  /\ \E i \in 1..Len(csv.rows) : csv.rows[i].kasus_bulanan = BAD
  /\ \E i \in 1..Len(csv.rows) : csv.rows[i].kasus_bulanan = NA
  /\ \E r \in FeatureRows : r.bulan = NA
  /\ \E r \in FeatureRows : r.jumlah_curah_hujan = NA
  /\ Len(df.rows) = 2

Triple(r) == <<r.kode_kabupaten_kota, r.tahun, r.bulan>>

\* C8 as stated: no two feature rows share region, year and month.
C8_TripleUnique ==
  Loaded => \A r \in FeatureRows : \A q \in FeatureRows : Triple(q) = Triple(r) => q = r

\* C8 (amended): loading neither merges nor drops rows that share region, year
\* and month: a triple is as often in the feature table as among the raw rows
\* that have a case count, so it is unique in the one iff it is in the other.
C8_TriplesAsInRawTable ==
  Loaded =>
    \A r \in RawRows :
      Cardinality({q \in FeatureRows : Triple(q) = Triple(r)})
        = Cardinality({q \in RawRows : Triple(q) = Triple(r) /\ q.kasus_bulanan # NA})

\* A raw table that holds an observation twice, both loaded.
C8_Witness ==
  /\ Loaded
  /\ \E r \in FeatureRows : \E q \in FeatureRows : q # r /\ Triple(q) = Triple(r)

-----------------------------------------------------------------------------
(* The aggregators and the estimator, stated on the last call's outcome *)

CountIn(s, x) == Cardinality({i \in 1..Len(s) : s[i] = x})

\* The rows a call with this year is about: all of them when no year is given.
InScope(r, year) == year \in {None, 0} \/ r.tahun = year

ScopeRows == {i \in 1..Len(df.rows) : InScope(df.rows[i], out.year)}

CaseSum(S) == SumSet([i \in S |-> df.rows[i].kasus_bulanan], S)

TotalCases == SumSet([i \in 1..Len(out.ret) |-> out.ret[i].total_cases], 1..Len(out.ret))

MonthlyReturned == out.op = "get_monthly_aggregated_data" /\ out.err = "none"

\* C1 as the specification states it: with an importance vector, the
\* total_cases of the monthly summaries add up to the case counts of every
\* row in the year's scope, rows without a calendar month included.
C1_MonthlyConservation ==
  MonthlyReturned /\ ~feature_importance.none => TotalCases = CaseSum(ScopeRows)

\* C1 as the code has it: with an importance vector, the total_cases of the
\* monthly summaries a call returns add up to the case counts of the rows in
\* scope whose month is one of 1..12; the other rows are in no summary.
C1_MonthlyConservationOverCalendarMonths ==
  MonthlyReturned /\ ~feature_importance.none =>
    TotalCases = CaseSum({i \in ScopeRows : df.rows[i].bulan \in 1..12})

\* C1 witness: a call for 2024 that returns a summary with cases in it, on a
\* table with a 2024 row that has no calendar month.
C1_Witness ==
  /\ MonthlyReturned /\ ~feature_importance.none /\ out.year = 2024
  /\ TotalCases > 0
  /\ \E i \in ScopeRows : df.rows[i].bulan \notin 1..12

\* C2: without an importance vector the monthly aggregator still returns a
\* summary for each month of 1..12 that has a row in scope.
C2_MonthlyEntriesWithoutImportance ==
  MonthlyReturned /\ feature_importance.none =>
    \A m \in 1..12 :
      (\E i \in ScopeRows : df.rows[i].bulan = m)
        => \E k \in 1..Len(out.ret) : out.ret[k].month = month_names[m]

IdColumns == {"kode_kabupaten_kota", "tahun", "bulan"}

LoadCalled == out.op = "load_and_preprocess_data"

C4_FewDistinctCaseCountsRaise ==
  out.op = "train_model" /\ ~df.none
    /\ Cardinality({df.rows[i].kasus_bulanan : i \in 1..Len(df.rows)}) < 2
    => out.err # "none" /\ feature_importance.none

\* C9, on tables where every row has a display name: the regional aggregator
\* returns one summary per distinct region identifier in scope.
C9_OneSummaryPerRegionId ==
  out.op = "get_regional_data" /\ out.err = "none"
    /\ (\A i \in ScopeRows : df.rows[i].nama_kabupaten_kota # NA)
    => Len(out.ret) = Cardinality({df.rows[i].kode_kabupaten_kota : i \in ScopeRows} \ {NA})

BuildCalled == out.op = "generate_api_data"

\* C10: a build of the report bundle enters train_model once and fits at most
\* once; a build that returns has fitted exactly once, the importance vector
\* it leaves holds what that fit yielded, and the factor catalog of the
\* bundle lists that vector.
C10_OneFitPerBuild ==
  BuildCalled =>
    /\ CountIn(out.log, "train_model") = 1
    /\ CountIn(out.log, "fit") <= 1
    /\ out.err = "none" =>
         /\ CountIn(out.log, "fit") = 1
         /\ Len(feature_importance.items) = Len(candidate_features)
         /\ \A k \in 1..Len(candidate_features) :
              \E j \in 1..Len(feature_importance.items) :
                feature_importance.items[j] = [f |-> candidate_features[k], w |-> estimator.importances[k]]
         /\ Len(out.ret.factor_summary.factors) = Len(feature_importance.items)
         /\ \A j \in 1..Len(feature_importance.items) :
              out.ret.factor_summary.factors[j].avg_importance = feature_importance.items[j].w

\* C10 witness: a build on a new processor has returned a bundle with a
\* monthly and a regional summary in it.
C10_Witness ==
  /\ BuildCalled /\ out.err = "none"
  /\ CountIn(out.log, "load_and_preprocess_data") = 1
  /\ Len(out.ret.dbd_ml_results) > 0 /\ Len(out.ret.regional_data) > 0

-----------------------------------------------------------------------------
(* Order of the stages *)

Aggregators == {"get_monthly_aggregated_data", "get_regional_data", "get_factor_summary"}

AggregatorReturned == out.op \in Aggregators /\ out.err = "none"

\* The greatest weight of the stored importance vector.
TopWeight == MaxOf({feature_importance.items[k].w : k \in 1..Len(feature_importance.items)})

\* C11 as the specification states it: an aggregator returns a result only
\* after load_and_preprocess_data and train_model have both finished, that
\* is, with a feature table and an importance vector on the processor.
C11_AggregatorsAfterEstimator ==
  AggregatorReturned => ~df.none /\ ~feature_importance.none

\* C11 as the code has it: an aggregator returns only after the load has
\* finished, and the factor catalog only after train_model has; the monthly
\* and the regional aggregator do not wait for train_model: before it the
\* monthly one returns no entry and the regional one the fallback factor.
\* A vector that exists is complete and is what the results report.
C11_AggregatorsAfterLoad ==
  AggregatorReturned =>
    /\ ~df.none
    /\ ~feature_importance.none => Len(feature_importance.items) = Len(candidate_features)
    /\ out.op = "get_factor_summary" =>
         /\ ~feature_importance.none
         /\ Len(out.ret.factors) = Len(feature_importance.items)
         /\ \A k \in 1..Len(out.ret.factors) :
              out.ret.factors[k].avg_importance = feature_importance.items[k].w
    /\ out.op = "get_monthly_aggregated_data" =>
         IF feature_importance.none THEN out.ret = <<>>
         ELSE \A k \in 1..Len(out.ret) : out.ret[k].factor_importance = TopWeight
    /\ out.op = "get_regional_data" =>
         \A k \in 1..Len(out.ret) :
           IF feature_importance.none
           THEN /\ out.ret[k].dominant_factor = "Kepadatan Penduduk"
                /\ out.ret[k].factor_importance = FallbackImportance
           ELSE out.ret[k].factor_importance = TopWeight

\* C11 witness: the regional aggregator has returned summaries on a processor
\* that never ran train_model.
C11_Witness ==
  /\ out.op = "get_regional_data" /\ out.err = "none"
  /\ feature_importance.none /\ Len(out.ret) > 0

\* C12: a build whose estimator failed (it leaves no importance vector)
\* raises, returns no bundle, and has entered no aggregator.
C12_EstimatorFailurePropagates ==
  BuildCalled /\ feature_importance.none =>
    /\ out.err # "none"
    /\ out.ret = <<>>
    /\ \A a \in Aggregators : CountIn(out.log, a) = 0

\* C12 witness: a build has raised the ValueError of a fit that was started
\* on a table with rows.
C12_Witness ==
  /\ BuildCalled /\ feature_importance.none /\ out.err = "ValueError"
  /\ CountIn(out.log, "fit") = 1 /\ Len(df.rows) >= 2

-----------------------------------------------------------------------------
(* The monthly summaries *)

Features == 1..Len(candidate_features)

\* C13: the three factors of every monthly summary are three different
\* features with the weights the fit gave them, no other feature weighs more
\* than the third, and the three weights do not increase.
C13_TopThreeFactors ==
  MonthlyReturned =>
    \A k \in 1..Len(out.ret) :
      /\ out.ret[k].factor_importance >= out.ret[k].secondary_importance
      /\ out.ret[k].secondary_importance >= out.ret[k].tertiary_importance
      /\ \E a \in Features : \E b \in Features \ {a} : \E c \in Features \ {a, b} :
           /\ out.ret[k].most_influential_factor = FACTOR_NAMES[candidate_features[a]]
           /\ out.ret[k].factor_importance = estimator.importances[a]
           /\ out.ret[k].secondary_factor = FACTOR_NAMES[candidate_features[b]]
           /\ out.ret[k].secondary_importance = estimator.importances[b]
           /\ out.ret[k].tertiary_factor = FACTOR_NAMES[candidate_features[c]]
           /\ out.ret[k].tertiary_importance = estimator.importances[c]
           /\ \A d \in Features \ {a, b, c} :
                estimator.importances[d] <= estimator.importances[c]

\* C13 witness: a summary whose first two factors weigh the same, from a fit
\* that did not give its weights in descending order.
C13_Witness ==
  /\ MonthlyReturned /\ Len(out.ret) > 0
  /\ estimator.importances[1] < estimator.importances[2]
  /\ out.ret[1].factor_importance = out.ret[1].secondary_importance
  /\ out.ret[1].secondary_importance > out.ret[1].tertiary_importance

\* The position of a month's name in the calendar.
MonthNumber(name) == CHOOSE m \in 1..12 : month_names[m] = name

\* C15: the monthly aggregator's output has an entry for a month exactly when
\* a row in scope has that month, holds at most 12 entries, and lists the
\* months in calendar order, none twice.
C15_EntryPerMonthWithRows ==
  MonthlyReturned =>
    /\ Len(out.ret) <= 12
    /\ \A m \in 1..12 :
         (\E k \in 1..Len(out.ret) : out.ret[k].month = month_names[m])
           <=> (\E i \in ScopeRows : df.rows[i].bulan = m)
    /\ \A j \in 1..Len(out.ret) : \A k \in 1..Len(out.ret) :
         j < k => MonthNumber(out.ret[j].month) < MonthNumber(out.ret[k].month)

-----------------------------------------------------------------------------
(* The bundle, stated on the raw table *)

\* The raw rows of month m that have a case count.
RawMonthRows(m) ==
  {i \in 1..Len(csv.rows) : csv.rows[i].bulan = m /\ csv.rows[i].kasus_bulanan \notin {NA, BAD}}

RawCaseSum(S) == SumSet([i \in S |-> csv.rows[i].kasus_bulanan], S)

BundleReturned == BuildCalled /\ out.err = "none"

\* There is a monthly entry of the bundle for month m with this total.
BundleMonthTotal(m, total) ==
  \E k \in 1..Len(out.ret.dbd_ml_results) :
    /\ out.ret.dbd_ml_results[k].month = month_names[m]
    /\ out.ret.dbd_ml_results[k].total_cases = total

\* C16 as the specification states it: the bundle has, for every month with
\* rows in the raw table, an entry whose total_cases is the sum of the case
\* counts of that month's rows.
C16_BundleMonthlyTotals ==
  BundleReturned =>
    \A m \in 1..12 : RawMonthRows(m) # {} => BundleMonthTotal(m, RawCaseSum(RawMonthRows(m)))

\* C16 as the code has it: the bundle has, for every month with rows of the
\* build's year (of any year when the build is given none), an entry whose
\* total_cases is the sum of the case counts of that month's rows of that year.
C16_BundleMonthlyTotalsOfYear ==
  BundleReturned =>
    \A m \in 1..12 :
      LET S == {i \in RawMonthRows(m) : InScope(csv.rows[i], out.year)}
      IN S # {} => BundleMonthTotal(m, RawCaseSum(S))

\* C16 witness: a build for 2024 has returned a bundle whose entry for a
\* month with two rows of 2024, of 10 and 30 cases, reports 40.
C16_Witness ==
  /\ BundleReturned /\ out.year = 2024
  /\ \E m \in 1..12 :
       /\ \E i \in RawMonthRows(m) : \E j \in RawMonthRows(m) :
            /\ csv.rows[i].kasus_bulanan = 10 /\ csv.rows[j].kasus_bulanan = 30
            /\ csv.rows[i].tahun = 2024 /\ csv.rows[j].tahun = 2024
       /\ BundleMonthTotal(m, 40)

-----------------------------------------------------------------------------
(* The formatter *)

Formatted == out.op = "format_population_density"

\* The step between two results in the band of a magnitude, in thousandths:
\* an integer from 100 on, one decimal from 10, two from 1, three below.
BandStep(v) ==
  IF v.num >= 100 * v.den THEN 1000
  ELSE IF v.num >= 10 * v.den THEN 100
  ELSE IF v.num >= v.den THEN 10
  ELSE 1

Abs(x) == IF x < 0 THEN -x ELSE x

-----------------------------------------------------------------------------
(* Filters that match nothing, and repeated calls *)

YearAggregators == {"get_monthly_aggregated_data", "get_regional_data"}

\* A call was given a year that no row of the feature table has.
YearMatchesNoRow ==
  /\ out.op \in YearAggregators /\ out.year # None /\ ~df.none
  /\ \A i \in 1..Len(df.rows) : df.rows[i].tahun # out.year

\* C18 as the specification states it (read for raw tables that have every
\* column): when the year given matches no row, the monthly and the regional
\* aggregator return an empty sequence and raise nothing.
C18_EmptyFilterReturnsEmpty ==
  YearMatchesNoRow /\ AllColumns \subseteq csv.columns => out.err = "none" /\ out.ret = <<>>

\* C18 as the code has it: the same for a year other than 0, which is no
\* filter at all, and for the regional aggregator on a raw table that has
\* the display-name column.
C18_EmptyYearFilterReturnsEmpty ==
  /\ YearMatchesNoRow /\ out.year # 0
  /\ out.op = "get_regional_data" => "nama_kabupaten_kota" \in csv.columns
  => out.err = "none" /\ out.ret = <<>>

\* C18 witness: with an importance vector and rows in the table, none of
\* them of 2024, a monthly call for 2024 has returned the empty sequence.
C18_Witness ==
  /\ YearMatchesNoRow /\ out.op = "get_monthly_aggregated_data" /\ out.year = 2024
  /\ ~feature_importance.none /\ Len(df.rows) > 0
  /\ out.err = "none" /\ out.ret = <<>>

\* A result without its synthetic confidence.
SansAccuracy(op, ret) ==
  IF op = "get_monthly_aggregated_data"
  THEN [k \in 1..Len(ret) |-> [ret[k] EXCEPT !.prediction_accuracy = AccuracyBaseline]]
  ELSE ret

\* This step is a call of the monthly or the regional aggregator.
AggregationStep == out'.op \in YearAggregators

\* C19: a call of the monthly or the regional aggregator leaves the
\* importance vector as it is and a stored feature table as it is, and a
\* call that repeats the one before it, with the same year, ends as that one
\* did, with the same result but for the synthetic confidence.
C19_AggregatorsPure ==
  [][AggregationStep =>
       /\ feature_importance' = feature_importance
       /\ ~df.none => df' = df
       /\ out.op = out'.op /\ out.year = out'.year =>
            /\ out'.err = out.err
            /\ SansAccuracy(out'.op, out'.ret) = SansAccuracy(out.op, out.ret)]_vars

\* C19 witness: a monthly call for 2024 has returned a summary, and the
\* table still holds a row that is not of 2024.
C19_Witness ==
  /\ MonthlyReturned /\ out.year = 2024 /\ Len(out.ret) > 0
  /\ \E i \in 1..Len(df.rows) : df.rows[i].tahun # 2024

\* C20: a load on a processor that already holds the feature table of the
\* raw table stores and returns that same table again, row for row and
\* field for field.
C20_ReloadGivesSameTable ==
  [][out'.op = "load_and_preprocess_data" /\ out'.err = "none" /\ ~df.none =>
       df' = df /\ out'.ret = df.rows]_vars

\* C20 witness: a load has returned on a processor that had trained, and so
\* loaded, before; its table has a row with a lag from the row before it.
C20_Witness ==
  /\ LoadCalled /\ out.err = "none" /\ ~feature_importance.none
  /\ \E i \in 1..Len(df.rows) : df.rows[i].rain_lag1 # NA

-----------------------------------------------------------------------------
(* The regional summaries *)

RegionalReturned == out.op = "get_regional_data" /\ out.err = "none"

\* C21: the summaries of one regional call all carry the same dominant
\* factor and importance; with an importance vector stored, these are a
\* feature that the fit gave the greatest weight, and that weight.
C21_SameDominantFactor ==
  RegionalReturned =>
    /\ \A j \in 1..Len(out.ret) : \A k \in 1..Len(out.ret) :
         /\ out.ret[j].dominant_factor = out.ret[k].dominant_factor
         /\ out.ret[j].factor_importance = out.ret[k].factor_importance
    /\ ~feature_importance.none =>
         \A k \in 1..Len(out.ret) :
           \E a \in Features :
             /\ \A b \in Features : estimator.importances[b] <= estimator.importances[a]
             /\ out.ret[k].dominant_factor = FACTOR_NAMES[candidate_features[a]]
             /\ out.ret[k].factor_importance = estimator.importances[a]

\* C21 witness: with a vector stored, a regional call has returned the
\* summaries of two regions.
C21_Witness ==
  RegionalReturned /\ ~feature_importance.none /\ Len(out.ret) >= 2

-----------------------------------------------------------------------------
(* The year label *)

\* The rows of the stored table that went into entry k of a monthly result.
EntryRows(k) ==
  {i \in 1..Len(df.rows) :
     /\ df.rows[i].bulan \in 1..12
     /\ month_names[df.rows[i].bulan] = out.ret[k].month
     /\ InScope(df.rows[i], out.year)}

\* How many of the rows in S carry year y.
YearCount(S, y) == Cardinality({i \in S : df.rows[i].tahun = y})

\* y is a most frequent year among the rows in S.
MostFrequentYear(S, y) ==
  /\ YearCount(S, y) >= 1
  /\ \A i \in S : df.rows[i].tahun # NA => YearCount(S, df.rows[i].tahun) <= YearCount(S, y)

\* C22 (as stated): the year label of every monthly entry is the filter year
\* when the caller supplied one, and otherwise a most frequent year among the
\* rows of that month.
C22_YearLabel ==
  MonthlyReturned =>
    \A k \in 1..Len(out.ret) :
      IF out.year # None
      THEN out.ret[k].year = out.year
      ELSE MostFrequentYear(EntryRows(k), out.ret[k].year)

\* C22 (amended): the year label of every monthly entry is the filter year
\* when the caller supplied one other than 0, and otherwise (no year, or
\* year 0) a most frequent year among the rows of that month.
C22_YearLabelOfTruthyYear ==
  MonthlyReturned =>
    \A k \in 1..Len(out.ret) :
      IF out.year \notin {None, 0}
      THEN out.ret[k].year = out.year
      ELSE MostFrequentYear(EntryRows(k), out.ret[k].year)

\* C22 witness: without a filter year, a month whose rows carry two years,
\* the later one more often, is labelled with the later one.
C22_Witness ==
  /\ MonthlyReturned
  /\ out.year = None
  /\ \E k \in 1..Len(out.ret) :
       /\ out.ret[k].year = 2024
       /\ YearCount(EntryRows(k), 2023) = 1
       /\ YearCount(EntryRows(k), 2024) = 2
-----------------------------------------------------------------------------
(* The matrix handed to the regression *)

\* The rows of the stored table that have a value of candidate feature k.
PresentIn(k) ==
  {i \in 1..Len(df.rows) : ~FeatureMissing(df.rows[i], candidate_features[k])}

FeatureOf(i, k) == feature_cell(df.rows[i], candidate_features[k])

\* The value of row a stands at place p when the values of feature k that
\* are present are put in ascending order.
AtRank(a, k, p) ==
  /\ Cardinality({i \in PresentIn(k) : FracLess(FeatureOf(i, k), FeatureOf(a, k))}) < p
  /\ p <= Cardinality({i \in PresentIn(k) : ~FracLess(FeatureOf(a, k), FeatureOf(i, k))})

\* m is the median of the values of feature k that are present: the middle
\* one, or halfway between the two middle ones.
IsMedian(m, k) ==
  /\ m.den # 0
  /\ \E a, b \in PresentIn(k) :
       /\ AtRank(a, k, (Cardinality(PresentIn(k)) + 1) \div 2)
       /\ AtRank(b, k, Cardinality(PresentIn(k)) \div 2 + 1)
       /\ 2 * m.num * FeatureOf(a, k).den * FeatureOf(b, k).den
            = m.den * (FeatureOf(a, k).num * FeatureOf(b, k).den
                       + FeatureOf(b, k).num * FeatureOf(a, k).den)

\* C23: the matrix handed to the regression has one row for every row of the
\* feature table; a value that is present is passed on as it is, a missing
\* one is replaced by the median of its feature over the table, and no
\* missing value is left in the matrix.
C23_MedianImputation ==
  ~model.none =>
    /\ Len(model.X) = Len(df.rows)
    /\ \A i \in 1..Len(model.X) : \A k \in 1..Len(candidate_features) :
         /\ model.X[i][k].den # 0
         /\ IF i \in PresentIn(k)
            THEN model.X[i][k] = FeatureOf(i, k)
            ELSE IsMedian(model.X[i][k], k)
-----------------------------------------------------------------------------
(* The factor catalog *)

FactorsReturned == out.op = "get_factor_summary" /\ out.err = "none"

-----------------------------------------------------------------------------
(* The synthetic confidence *)

\* The widest the confidence may be off its baseline, in thousandths.
AccuracySpread == 30

\* C25: the prediction_accuracy of every monthly entry is within 0.03 of the
\* baseline 0.80, both ends included, and it is all that the random draws
\* decide: a monthly call that follows one with the same year on the same
\* table and vector returns the same entries in the same order, whatever the
\* confidences of the two.
C25_SyntheticConfidence ==
  [][out'.op = "get_monthly_aggregated_data" /\ out'.err = "none" =>
       /\ \A k \in 1..Len(out'.ret) :
            /\ AccuracyBaseline - AccuracySpread <= out'.ret[k].prediction_accuracy
            /\ out'.ret[k].prediction_accuracy <= AccuracyBaseline + AccuracySpread
       /\ (MonthlyReturned /\ out.year = out'.year /\ df' = df /\ feature_importance' = feature_importance)
            => SansAccuracy(out'.op, out'.ret) = SansAccuracy(out.op, out.ret)]_vars

\* C25 witness: a monthly call has returned two entries, one with the lowest
\* confidence and one with a confidence just under the highest.
C25_Witness ==
  /\ MonthlyReturned
  /\ \E j, k \in 1..Len(out.ret) :
       /\ out.ret[j].prediction_accuracy = AccuracyBaseline - AccuracySpread
       /\ out.ret[k].prediction_accuracy > AccuracyBaseline + AccuracySpread - 2
-----------------------------------------------------------------------------
(* The processor cache *)

\* This step is a call of get_or_create_processor.
CacheStep == out'.op = "get_or_create_processor"

\* The instance key k is mapped to was loaded once and trained once, it holds
\* a table and a vector, and no other key is mapped to it.
OwnProcessor(cache, heap, k) ==
  /\ cache[k] \in 1..Len(heap)
  /\ heap[cache[k]].loads = 1
  /\ heap[cache[k]].trains = 1
  /\ ~heap[cache[k]].self.df.none
  /\ ~heap[cache[k]].self.feature_importance.none
  /\ \A j \in DOMAIN cache : j # k => cache[j] # cache[k]

\* A call leaves every mapping of the cache and every object on the heap as
\* it was, and a call for a year that is mapped returns the instance of that
\* year and enters neither the load nor the training.
CachePreserved ==
  /\ \A k \in DOMAIN data_cache : k \in DOMAIN data_cache' /\ data_cache'[k] = data_cache[k]
  /\ \A i \in 1..Len(processors) : processors'[i] = processors[i]
  /\ cache_key(out'.year) \in DOMAIN data_cache =>
       /\ out'.err = "none"
       /\ out'.ret = <<data_cache[cache_key(out'.year)]>>
       /\ out'.log = <<>>
       /\ processors' = processors
       /\ data_cache' = data_cache

\* C26 (as stated): after a call of get_or_create_processor the year asked
\* for is mapped to a processor of its own, loaded once and trained once, as
\* is every year mapped before; the mappings and the instances that existed
\* are as they were; a call for a mapped year returns that year's instance
\* without a load or a training, and a call that repeats the year of the call
\* before it enters neither.
C26_ProcessorPerYear ==
  [][CacheStep =>
       /\ cache_key(out'.year) \in DOMAIN data_cache'
       /\ \A k \in DOMAIN data_cache' : OwnProcessor(data_cache', processors', k)
       /\ CachePreserved
       /\ out.op = "get_or_create_processor" /\ out.year = out'.year => out'.log = <<>>]_vars

\* C26 (amended): after a call of get_or_create_processor that returned, the
\* year asked for is mapped to a processor of its own, loaded once and
\* trained once, as is every year mapped before; the mappings and the
\* instances that existed are as they were; a call for a mapped year returns
\* that year's instance without a load or a training.  A call whose load or
\* training raises maps nothing, so the next call for that year loads again.
C26_ProcessorPerReturnedYear ==
  [][CacheStep =>
       /\ out'.err = "none" <=> cache_key(out'.year) \in DOMAIN data_cache'
       /\ \A k \in DOMAIN data_cache' : OwnProcessor(data_cache', processors', k)
       /\ CachePreserved
       /\ out'.err # "none" => Entered(out'.log, "load_and_preprocess_data") = 1]_vars

\* C26 witness: both years are mapped, a second instance was made for the
\* second year, and the call for the first year has returned the first one.
C26_Witness ==
  /\ out.op = "get_or_create_processor" /\ out.err = "none"
  /\ DOMAIN data_cache = {cache_key(y) : y \in CacheYears}
  /\ Len(processors) = 2
  /\ out.ret = <<1>>
  /\ data_cache[cache_key(out.year)] = 1
-----------------------------------------------------------------------------
(* Regional totals *)

RegionalTotal ==
  SumSet([k \in 1..Len(out.ret) |-> out.ret[k].total_cases_2023], 1..Len(out.ret))

\* C27 (as stated): the totals of the regional summaries a call returns add
\* up to the case counts of every row in the year's scope, rows without a
\* region name included.
C27_RegionalConservation ==
  RegionalReturned => RegionalTotal = CaseSum(ScopeRows)

\* C27 (amended): the totals of the regional summaries a call returns add up
\* to the case counts of the rows in the year's scope that have a region
\* identifier and a region name; a row that lacks either is in no summary.
C27_RegionalConservationOverNamedRegions ==
  RegionalReturned =>
    RegionalTotal = CaseSum({i \in ScopeRows : /\ df.rows[i].kode_kabupaten_kota # NA
                                               /\ df.rows[i].nama_kabupaten_kota # NA})

\* C27 witness: a call for 2024 has returned summaries with cases in them, on
\* a table with a 2024 row that has no region name.
C27_Witness ==
  /\ RegionalReturned /\ out.year = 2024
  /\ RegionalTotal > 0
  /\ \E i \in ScopeRows : df.rows[i].nama_kabupaten_kota = NA
-----------------------------------------------------------------------------
(* The regional aggregator without an importance vector *)

\* The pairs of region identifier and region name among the rows in scope.
RegionGroups ==
  {GroupKey(df.rows[i]) : i \in {j \in ScopeRows : /\ df.rows[j].kode_kabupaten_kota # NA
                                                    /\ df.rows[j].nama_kabupaten_kota # NA}}

\* The call was one of the regional aggregator that found no importance
\* vector: it never stores one, so none is there after it either.
UntrainedRegionalCall == out.op = "get_regional_data" /\ feature_importance.none

\* The result has one summary for each region group, each with the fallback
\* factor 'Kepadatan Penduduk' and the fallback importance 0.60.
FallbackSummaries ==
  /\ Len(out.ret) = Cardinality(RegionGroups)
  /\ \A g \in RegionGroups : \E k \in 1..Len(out.ret) : out.ret[k].province = g[2]
  /\ \A k \in 1..Len(out.ret) :
       /\ out.ret[k].dominant_factor = "Kepadatan Penduduk"
       /\ out.ret[k].factor_importance = FallbackImportance

\* C28 (as stated): a call of the regional aggregator enters no training and
\* no fit, and on a processor without an importance vector it does not fail
\* and returns one fallback summary for each region group.
C28_UntrainedRegional ==
  out.op = "get_regional_data" =>
    /\ Entered(out.log, "train_model") = 0 /\ Entered(out.log, "fit") = 0
    /\ feature_importance.none => out.err = "none" /\ FallbackSummaries

\* C28 (amended): a call of the regional aggregator enters no training and no
\* fit, and on a processor without an importance vector it returns one
\* fallback summary for each region group when the raw table has every
\* column, and raises KeyError when it lacks one.
C28_UntrainedRegionalOnCompleteTable ==
  out.op = "get_regional_data" =>
    /\ Entered(out.log, "train_model") = 0 /\ Entered(out.log, "fit") = 0
    /\ feature_importance.none =>
         IF AllColumns \subseteq csv.columns
         THEN out.err = "none" /\ FallbackSummaries
         ELSE out.err = "KeyError" /\ out.ret = <<>>

\* C28 witness: on a processor without an importance vector the regional
\* aggregator has loaded the table and returned the fallback summaries of
\* two regions.
C28_Witness ==
  /\ UntrainedRegionalCall /\ out.err = "none"
  /\ out.log = <<"get_regional_data", "load_and_preprocess_data">>
  /\ Len(out.ret) = 2
  /\ out.ret[1].factor_importance = FallbackImportance
  /\ out.ret[2].dominant_factor = "Kepadatan Penduduk"
-----------------------------------------------------------------------------
(* The formatter across its bands *)

\* This step and the one before it are calls of the formatter.
FormatterSteps ==
  out.op = "format_population_density" /\ out'.op = "format_population_density"

\* C29: of two values the formatter is given one after the other, the
\* greater does not get the smaller result, and a value that is the result of
\* the call before is returned as it is.
C29_MonotoneAndIdempotent ==
  [][FormatterSteps =>
       /\ out.ret.value.num * out'.ret.value.den <= out'.ret.value.num * out.ret.value.den
            => out.ret.result <= out'.ret.result
       /\ out'.ret.value.num * out.ret.value.den <= out.ret.value.num * out'.ret.value.den
            => out'.ret.result <= out.ret.result
       /\ out'.ret.value.num * 1000 = out.ret.result * out'.ret.value.den
            => out'.ret.result = out.ret.result]_vars

\* C29 witness: a value just below 10 has been formatted up to 10, the first
\* value of the next band.
C29_Witness ==
  /\ Formatted
  /\ out.ret.value = [num |-> 40959, den |-> 4096]
  /\ out.ret.result = 10000
====
